---- MODULE Spec2Model ----
(***************************************************************************)
(* Model of src/query_raster.py: the db_cursor context manager, the three  *)
(* query functions built on it (get_pixel_value_5070,                      *)
(* get_pixel_counts_in_buffer_5070, get_pixel_counts_in_neighborhood_5070) *)
(* and the benchmark harness benchmark_methods_by_size.                    *)
(*                                                                         *)
(* The database engine is an external collaborator.  Its table             *)
(* nlcd_landcover is modelled as one raster tile of RasterW x RasterH      *)
(* cells (1-based column, row); a point is the cell of the world grid it   *)
(* falls in, so a point outside 1..RasterW x 1..RasterH intersects no      *)
(* tile.  psycopg calls (connect, cursor, execute, commit, rollback) may   *)
(* raise; cursor.close() and connection.close() do not.                    *)
(***************************************************************************)
EXTENDS Integers, Sequences, FiniteSets, TLC

VARIABLES
    op,           \* function running at call level: "with" | "value" | "buffer" | "neighborhood" | "none"
    pc,           \* position inside db_cursor / the query function
    connection,   \* local `connection` of db_cursor: "None" | "open" | "closed"
    cursor,       \* local `cursor` of db_cursor: "unbound" | "open" | "closed"
    exc,          \* exception in flight ("none" when there is none)
    firstExc,     \* first exception raised during this call (history)
    bodyState,    \* with-body: "notrun" | "completed" | "raised" (history)
    log,          \* psycopg calls attempted during this call, in order
    retval,       \* value of the `return` expression evaluated inside the with-body
    result,       \* what the caller of the function observes
    prev,         \* result of an earlier call with the same arguments that hit a connect failure
    point,        \* (x, y) as the world-grid cell it falls in
    arg,          \* buffer_meters or window_size
    oddCell,      \* raster content: the cell holding the second class
    ndCells,      \* raster content: the no-data cells
    faults,       \* failures the environment has injected so far
    hpc,          \* position inside benchmark_methods_by_size ("off" when it is not running)
    sizes,        \* argument `sizes`
    n_iterations, \* argument `n_iterations`
    idx,          \* index into sizes of the outer loop
    iter,         \* iterations of the inner loop started for the current size
    results,      \* the `results` dictionary
    failedCalls,  \* aggregator calls that returned None to the harness (history)
    szpc,         \* position of the window-size computation ("off" when it is not running)
    szA,          \* size -> cells -> distance for a first size
    szB           \* the same for a second size, szA.size <= szB.size

callVars  == <<op, pc, connection, cursor, exc, firstExc, bodyState, log, retval, result,
               prev, point, arg, oddCell, ndCells, faults>>
benchVars == <<hpc, sizes, n_iterations, idx, iter, results, failedCalls>>
sizerVars == <<szpc, szA, szB>>
vars      == <<callVars, benchVars, sizerVars>>

(***************************************************************************)
(* Bounds of the model                                                     *)
(***************************************************************************)
RasterW    == 3     \* columns of the raster tile
RasterH    == 3     \* rows of the raster tile
FarAway    == 10    \* distance (cells) of the far outside point from the tile
MaxWindow  == 5     \* largest window_size passed directly to the neighborhood query
MaxFaults  == 2     \* failures the environment injects in one run
MaxSizes   == 2     \* longest `sizes` sequence given to the harness
MaxIter    == 2     \* largest n_iterations given to the harness
MaxSize    == 400   \* largest size (meters) of the window-size computation
MaxNegSize == 60    \* the smallest size is -MaxNegSize

(***************************************************************************)
(* Raster content                                                          *)
(***************************************************************************)
NoData  == 0                  \* SQL NULL / Python None in the pixel-value domain
Cells == (1..RasterW) \X (1..RasterH)
OutsidePoints == {<<0, 1>>, <<0 - FarAway, 1>>}
Points == Cells \cup OutsidePoints

NoDataPatterns ==
    {{}} \cup {{c} : c \in Cells} \cup {Cells} \cup {{c \in Cells : c[2] = 1}}

OddCells == {<<1, 1>>, <<2, 2>>}

\* every cell holds class 7, but one cell holding class 42; no-data cells hold neither
Raster(odd, nd) ==
    [c \in Cells |-> IF c \in nd THEN NoData ELSE IF c = odd THEN 42 ELSE 7]

rast == Raster(oddCell, ndCells)

(***************************************************************************)
(* What a caller observes                                                  *)
(***************************************************************************)
NoHist == [v \in {} |-> 0]

Res(kind, hist, value, e) == [kind |-> kind, hist |-> hist, value |-> value, exc |-> e]

Pending        == Res("pending", NoHist, NoData, "none")
NoCall         == Res("nocall", NoHist, NoData, "none")
NoneResult     == Res("None", NoHist, NoData, "none")
NormalResult   == Res("normal", NoHist, NoData, "none")
DictResult(h)  == Res("dict", h, NoData, "none")
ValueResult(v) == IF v = NoData THEN NoneResult ELSE Res("value", NoHist, v, "none")
RaiseResult(e) == Res("raise", NoHist, NoData, e)

(***************************************************************************)
(* Exceptions.  KeyboardInterrupt stands for the BaseException subclasses  *)
(* that are not Exception subclasses.                                      *)
(***************************************************************************)
BodyExceptions == {"BodyError", "KeyboardInterrupt"}

\* `except Exception` matches every Exception subclass and nothing else
ExceptException(e) == e # "KeyboardInterrupt"

(***************************************************************************)
(* Engine primitives and the three SQL statements                          *)
(***************************************************************************)
CellResolution == 30

Range(s) == {s[i] : i \in DOMAIN s}

RECURSIVE Flatten(_)
Flatten(rows) ==
    IF rows = <<>> THEN <<>> ELSE Head(rows) \o Flatten(Tail(rows))

RECURSIVE CountIn(_, _)
CountIn(s, v) ==
    IF s = <<>> THEN 0
    ELSE (IF Head(s) = v THEN 1 ELSE 0) + CountIn(Tail(s), v)

\* ST_Neighborhood: a (2*dy+1) x (2*dx+1) array around (col, row); cells outside
\* the tile and no-data cells are NULL
ST_Neighborhood(r, col, row, dx, dy) ==
    [j \in 1..(2 * dy + 1) |->
        [i \in 1..(2 * dx + 1) |->
            LET c == <<col - dx + i - 1, row - dy + j - 1>>
            IN  IF c \in Cells THEN r[c] ELSE NoData]]

\* CTE raster_coords: the tile intersecting the point with the point's cell, LIMIT 1
RasterCoords(r, p) ==
    IF p \in Cells THEN <<[columnx |-> p[1], rowy |-> p[2]]>> ELSE <<>>

\* CTE neighborhood: unnest of the window of every raster_coords row
NeighborhoodPixels(r, p, distance) ==
    Flatten([k \in DOMAIN RasterCoords(r, p) |->
        Flatten(ST_Neighborhood(r, RasterCoords(r, p)[k].columnx,
                                RasterCoords(r, p)[k].rowy, distance, distance))])

\* variant of PixelFilter: the tabulation without the filter
NoFilter(v) == TRUE

\* WHERE pixel_value IS NOT NULL
PixelFilter(v) == v # NoData

\* SELECT pixel_value, count(*) ... GROUP BY pixel_value
GroupCount(pixels) ==
    {<<v, CountIn(pixels, v)>> : v \in Range(pixels)}

NeighborhoodQuery(r, p, distance) ==
    GroupCount(SelectSeq(NeighborhoodPixels(r, p, distance), PixelFilter))

\* ST_Clip by ST_Buffer(point, meters): the cells whose centre lies in the disc
InBuffer(c, p, meters) ==
    /\ meters > 0
    /\ (CellResolution * (c[1] - p[1])) * (CellResolution * (c[1] - p[1]))
         + (CellResolution * (c[2] - p[2])) * (CellResolution * (c[2] - p[2]))
       <= meters * meters

\* ST_ValueCount over the clipped tile (no-data excluded by the engine)
BufferQuery(r, p, meters) ==
    LET clipped == {c \in Cells : InBuffer(c, p, meters)}
    IN  {<<v, Cardinality({c \in clipped : r[c] = v})>> :
            v \in {r[c] : c \in clipped} \ {NoData}}

\* SELECT ST_Value(rast, point) ... WHERE ST_Intersects(rast, point) LIMIT 1
ValueQuery(r, p) ==
    IF p \in Cells THEN <<<<r[p]>>>> ELSE <<>>

\* cursor.fetchone(): the first row, or None (modelled as the empty tuple)
FetchOne(rows) == IF rows = <<>> THEN <<>> ELSE rows[1]

\* {value: count for value, count in results}
DictOf(rows) ==
    [v \in {row[1] : row \in rows} |-> (CHOOSE row \in rows : row[1] = v)[2]]

\* variant of Distance: the half rounded up
DistanceCeil(window_size) == (window_size + 1) \div 2

\* distance = window_size // 2
Distance(window_size) == window_size \div 2

(***************************************************************************)
(* db_cursor: a generator-based context manager.  One action per           *)
(* statement that calls psycopg; a call either succeeds or raises.         *)
(***************************************************************************)
CanFail == faults < MaxFaults

\* an exception e is raised inside the try block: control goes to the except
\* clause when it matches, else straight to the finally clause
RaiseInTry(e) ==
    /\ exc' = e
    /\ firstExc' = IF firstExc = "none" THEN e ELSE firstExc
    /\ pc' = IF ExceptException(e) THEN "except" ELSE "finally"
    /\ faults' = faults + 1

\* connection = psycopg.connect(db_url)
Connect ==
    /\ pc = "connect"
    /\ log' = Append(log, "connect")
    /\ \/ /\ connection' = "open"
          /\ pc' = "cursor"
          /\ UNCHANGED <<exc, firstExc, faults>>
       \/ /\ CanFail
          /\ RaiseInTry("OperationalError")
          /\ UNCHANGED connection
    /\ UNCHANGED <<op, cursor, bodyState, retval, result, prev, point, arg, oddCell, ndCells>>
    /\ UNCHANGED <<benchVars, sizerVars>>

\* cursor = connection.cursor()
Cursor ==
    /\ pc = "cursor"
    /\ log' = Append(log, "cursor")
    /\ \/ /\ cursor' = "open"
          /\ pc' = "body"
          /\ UNCHANGED <<exc, firstExc, faults>>
       \/ /\ CanFail
          /\ RaiseInTry("CursorError")
          /\ UNCHANGED cursor
    /\ UNCHANGED <<op, connection, bodyState, retval, result, prev, point, arg, oddCell, ndCells>>
    /\ UNCHANGED <<benchVars, sizerVars>>

\* yield cursor: the with-body runs.  It leaves the with block normally (also by
\* `return v`), or raises e, which the context manager throws into the generator
\* at the yield
BodyReturns(v) ==
    /\ bodyState' = "completed"
    /\ retval' = v
    /\ pc' = "commit"
    /\ UNCHANGED <<exc, firstExc, faults>>

BodyRaises ==
    /\ CanFail
    /\ \E e \in BodyExceptions : RaiseInTry(e)
    /\ bodyState' = "raised"
    /\ UNCHANGED retval

\* a with-body of some other caller
WithBody ==
    /\ pc = "body"
    /\ op = "with"
    /\ \/ BodyReturns(NormalResult)
       \/ BodyRaises
    /\ UNCHANGED <<op, connection, cursor, log, result, prev, point, arg, oddCell, ndCells>>
    /\ UNCHANGED <<benchVars, sizerVars>>

\* connection.commit()
Commit ==
    /\ pc = "commit"
    /\ log' = Append(log, "commit")
    /\ \/ /\ pc' = "finally"
          /\ UNCHANGED <<exc, firstExc, faults>>
       \/ /\ CanFail
          /\ RaiseInTry("CommitError")
    /\ UNCHANGED <<op, connection, cursor, bodyState, retval, result, prev, point, arg,
                   oddCell, ndCells>>
    /\ UNCHANGED <<benchVars, sizerVars>>

\* variant of Except: the clause ends without `raise`
ExceptSwallow ==
    /\ pc = "except"
    /\ pc' = "finally"
    /\ exc' = "none"
    /\ log' = IF connection # "None" THEN Append(log, "rollback") ELSE log
    /\ UNCHANGED <<op, connection, cursor, firstExc, bodyState, retval, result,
                   prev, point, arg, oddCell, ndCells, faults>>
    /\ UNCHANGED <<benchVars, sizerVars>>

\* except Exception as e: if connection: connection.rollback(); print; raise
Except ==
    /\ pc = "except"
    /\ pc' = "finally"
    /\ IF connection # "None"
       THEN /\ log' = Append(log, "rollback")
            /\ \/ UNCHANGED <<exc, faults>>
               \/ /\ CanFail
                  /\ exc' = "RollbackError"
                  /\ faults' = faults + 1
       ELSE UNCHANGED <<log, exc, faults>>
    /\ UNCHANGED <<op, connection, cursor, firstExc, bodyState, retval, result, prev, point,
                   arg, oddCell, ndCells>>
    /\ UNCHANGED <<benchVars, sizerVars>>

\* finally: if connection: if cursor: cursor.close(); connection.close()
\* `cursor` is a local that is unbound when connection.cursor() raised: reading
\* it raises UnboundLocalError, which replaces the exception in flight
Finally ==
    /\ pc = "finally"
    /\ pc' = "exit"
    /\ IF connection # "None"
       THEN IF cursor = "unbound"
            THEN /\ exc' = "UnboundLocalError"
                 /\ UNCHANGED <<connection, cursor, log>>
            ELSE /\ cursor' = "closed"
                 /\ connection' = "closed"
                 /\ log' = log \o <<"cursor.close", "connection.close">>
                 /\ UNCHANGED exc
       ELSE UNCHANGED <<connection, cursor, log, exc>>
    /\ UNCHANGED <<op, firstExc, bodyState, retval, result, prev, point, arg, oddCell,
                   ndCells, faults>>
    /\ UNCHANGED <<benchVars, sizerVars>>

\* the with statement of the other caller is left: normally, or by the exception
WithExit ==
    /\ pc = "exit"
    /\ op = "with"
    /\ pc' = "done"
    /\ result' = IF exc = "none" THEN retval ELSE RaiseResult(exc)
    /\ UNCHANGED <<op, connection, cursor, exc, firstExc, bodyState, log, retval, prev,
                   point, arg, oddCell, ndCells, faults>>
    /\ UNCHANGED <<benchVars, sizerVars>>

(***************************************************************************)
(* The three query functions: try: with db_cursor() as cursor: <body>      *)
(*                            except Exception as e: print; return None    *)
(***************************************************************************)
\* the value the function returns from its `except Exception` clause
ReturnOnError == NoneResult

\* the caller's view once the with statement is left
FunctionOutcome ==
    IF exc = "none" THEN retval
    ELSE IF ExceptException(exc) THEN ReturnOnError
    ELSE RaiseResult(exc)

\* get_pixel_value_5070: execute, fetchone, return result[0] if result else None
GetPixelValueBody ==
    /\ pc = "body"
    /\ op = "value"
    /\ \/ LET row == FetchOne(ValueQuery(rast, point))
          IN  BodyReturns(IF row # <<>> THEN ValueResult(row[1]) ELSE NoneResult)
       \/ BodyRaises
    /\ log' = Append(log, "execute")
    /\ UNCHANGED <<op, connection, cursor, result, prev, point, arg, oddCell, ndCells>>
    /\ UNCHANGED <<benchVars, sizerVars>>

GetPixelValueReturn ==
    /\ pc = "exit"
    /\ op = "value"
    /\ pc' = "done"
    /\ result' = FunctionOutcome
    /\ UNCHANGED <<op, connection, cursor, exc, firstExc, bodyState, log, retval, prev,
                   point, arg, oddCell, ndCells, faults>>
    /\ UNCHANGED <<benchVars, sizerVars>>

\* get_pixel_counts_in_buffer_5070: execute, fetchall, return the dict of the rows
BufferBody ==
    /\ pc = "body"
    /\ op = "buffer"
    /\ \/ BodyReturns(DictResult(DictOf(BufferQuery(rast, point, arg))))
       \/ BodyRaises
    /\ log' = Append(log, "execute")
    /\ UNCHANGED <<op, connection, cursor, result, prev, point, arg, oddCell, ndCells>>
    /\ UNCHANGED <<benchVars, sizerVars>>

BufferReturn ==
    /\ pc = "exit"
    /\ op = "buffer"
    /\ pc' = "done"
    /\ result' = FunctionOutcome
    /\ UNCHANGED <<op, connection, cursor, exc, firstExc, bodyState, log, retval, prev,
                   point, arg, oddCell, ndCells, faults>>
    /\ UNCHANGED <<benchVars, sizerVars>>

\* get_pixel_counts_in_neighborhood_5070: distance = window_size // 2, execute,
\* fetchall, return the dict of the rows
NeighborhoodBody ==
    /\ pc = "body"
    /\ op = "neighborhood"
    /\ \/ BodyReturns(DictResult(DictOf(NeighborhoodQuery(rast, point, Distance(arg)))))
       \/ BodyRaises
    /\ log' = Append(log, "execute")
    /\ UNCHANGED <<op, connection, cursor, result, prev, point, arg, oddCell, ndCells>>
    /\ UNCHANGED <<benchVars, sizerVars>>

NeighborhoodReturn ==
    /\ pc = "exit"
    /\ op = "neighborhood"
    /\ pc' = "done"
    /\ result' = FunctionOutcome
    /\ UNCHANGED <<op, connection, cursor, exc, firstExc, bodyState, log, retval, prev,
                   point, arg, oddCell, ndCells, faults>>
    /\ UNCHANGED <<benchVars, sizerVars>>

\* state of the locals when db_cursor is entered
EnterCursor ==
    /\ pc' = "connect"
    /\ connection' = "None"
    /\ cursor' = "unbound"
    /\ exc' = "none"
    /\ firstExc' = "none"
    /\ bodyState' = "notrun"
    /\ log' = <<>>
    /\ retval' = Pending
    /\ result' = Pending

\* the caller of a query function whose call met a connect failure calls it
\* again with the same arguments
CallAgain ==
    /\ hpc = "off"
    /\ pc = "done"
    /\ op \in {"value", "buffer", "neighborhood"}
    /\ prev = NoCall
    /\ firstExc = "OperationalError"
    /\ prev' = result
    /\ faults' = 0
    /\ EnterCursor
    /\ UNCHANGED <<op, point, arg, oddCell, ndCells>>
    /\ UNCHANGED <<benchVars, sizerVars>>

(***************************************************************************)
(* Specification of single calls: a with statement of some caller, or one  *)
(* of the three query functions, on some raster, point and argument        *)
(***************************************************************************)
BufferMeters == {30, 90}

EmptyResults == [buffer |-> NoHist, neighborhood |-> NoHist]

NoSize == [size |-> 0, cells |-> 0, distance |-> 0]

BenchOff ==
    /\ hpc = "off"
    /\ sizes = <<>>
    /\ n_iterations = 0
    /\ idx = 0
    /\ iter = 0
    /\ results = EmptyResults
    /\ failedCalls = 0

SizerOff ==
    /\ szpc = "off"
    /\ szA = NoSize
    /\ szB = NoSize

CallStart ==
    /\ pc = "connect"
    /\ connection = "None"
    /\ cursor = "unbound"
    /\ exc = "none"
    /\ firstExc = "none"
    /\ bodyState = "notrun"
    /\ log = <<>>
    /\ retval = Pending
    /\ result = Pending
    /\ prev = NoCall
    /\ faults = 0

Init ==
    /\ CallStart
    /\ op \in {"with", "value", "buffer", "neighborhood"}
    /\ point \in (IF op = "with" THEN {<<2, 2>>} ELSE Points)
    /\ oddCell \in (IF op = "with" THEN {<<2, 2>>} ELSE OddCells)
    /\ ndCells \in (IF op = "with" THEN {{}} ELSE NoDataPatterns)
    /\ arg \in (CASE op = "buffer" -> BufferMeters
                  [] op = "neighborhood" -> 0..MaxWindow
                  [] OTHER -> {0})
    /\ BenchOff
    /\ SizerOff

Next ==
    \/ Connect
    \/ Cursor
    \/ WithBody
    \/ GetPixelValueBody
    \/ BufferBody
    \/ NeighborhoodBody
    \/ Commit
    \/ Except
    \/ Finally
    \/ WithExit
    \/ GetPixelValueReturn
    \/ BufferReturn
    \/ NeighborhoodReturn
    \/ CallAgain

Spec == Init /\ [][Next]_vars

(***************************************************************************)
(* Properties of single calls (specification Spec)                         *)
(***************************************************************************)
CursorExited == pc \in {"exit", "done"}

Called(name) == name \in Range(log)

\* C1: on every exit path of db_cursor, a connection that psycopg.connect
\* opened has been closed by the time db_cursor exits.
C1_ConnectionClosedOnExit ==
    CursorExited => connection # "open"

\* C2 as stated: commit is called exactly when the with-body completes without
\* raising; when the body or commit raises while a connection is open, rollback
\* has been called by the time the exception reaches the caller, and the caller
\* gets that same exception.
C2_RollbackAndSameException ==
    CursorExited =>
        /\ Called("commit") <=> bodyState = "completed"
        /\ (bodyState = "raised" \/ firstExc = "CommitError") =>
               /\ Called("rollback")
               /\ exc # "none"
               /\ exc = firstExc

\* C2 amended: commit is called exactly when the with-body completes without
\* raising.  When the body raises an Exception subclass, or commit raises,
\* rollback has been called by the time db_cursor exits and an exception reaches
\* the caller: the same exception, or rollback's own exception when rollback
\* itself raised.  When the body raises a BaseException that is no Exception,
\* rollback is not called and that exception reaches the caller.
C2_RollbackOnExceptionOnly ==
    CursorExited =>
        /\ Called("commit") <=> bodyState = "completed"
        /\ firstExc \in {"BodyError", "CommitError"} =>
               /\ Called("rollback")
               /\ exc \in {firstExc, "RollbackError"}
        /\ firstExc = "KeyboardInterrupt" =>
               /\ ~Called("rollback")
               /\ exc = firstExc

C2_Witness ==
    /\ pc = "done"
    /\ op = "with"
    /\ bodyState = "raised"
    /\ firstExc = "BodyError"
    /\ log = <<"connect", "cursor", "rollback", "cursor.close", "connection.close">>
    /\ result = RaiseResult("BodyError")

\* C5: when the session cannot be opened or the engine rejects the request, the
\* two aggregators surface the failure to their caller as an error and never
\* return None.
C5_AggregatorSurfacesFailure ==
    (/\ pc = "done"
     /\ op \in {"buffer", "neighborhood"}
     /\ firstExc \in {"OperationalError", "BodyError"})
    => result.kind = "raise"

\* C6: for each of the three query functions, what the caller observes when the
\* point intersects no raster tile differs from what it observed when the
\* connection failed.
C6_NotFoundDistinctFromConnectionFailure ==
    (/\ pc = "done"
     /\ op \in {"value", "buffer", "neighborhood"}
     /\ prev # NoCall
     /\ firstExc = "none"
     /\ point \notin Cells)
    => result # prev

\* the square window of the given radius around p, clipped to the raster
WindowOf(p, radius) ==
    {c \in Cells : /\ c[1] - p[1] <= radius /\ p[1] - c[1] <= radius
                   /\ c[2] - p[2] <= radius /\ p[2] - c[2] <= radius}

ValidCells == {c \in WindowOf(point, arg \div 2) : rast[c] # NoData}

Tabulation ==
    [v \in {rast[c] : c \in ValidCells} |-> Cardinality({c \in ValidCells : rast[c] = v})]

RECURSIVE SumOver(_, _)
SumOver(h, keys) ==
    IF keys = {} THEN 0
    ELSE LET k == CHOOSE k \in keys : TRUE
         IN  h[k] + SumOver(h, keys \ {k})

\* C7: for a point inside the raster, the histogram the neighborhood function
\* returns is the tabulation of the non-null cells of the square window of
\* radius window_size // 2 around the point's cell, clipped to the raster:
\* no-data is no key, every count is >= 1, the counts sum to the number of valid
\* cells; a 3x3 window with centre 42 surrounded by 7 gives {42: 1, 7: 8}.
C7_NeighborhoodHistogramIsTabulation ==
    (/\ pc = "done"
     /\ op = "neighborhood"
     /\ firstExc = "none"
     /\ point \in Cells)
    => /\ result.kind = "dict"
       /\ result.hist = Tabulation
       /\ NoData \notin DOMAIN result.hist
       /\ \A v \in DOMAIN result.hist : result.hist[v] >= 1
       /\ SumOver(result.hist, DOMAIN result.hist) = Cardinality(ValidCells)
       /\ (point = <<2, 2>> /\ oddCell = <<2, 2>> /\ ndCells = {} /\ arg = 3)
              => result.hist = (42 :> 1 @@ 7 :> 8)

C7_Witness ==
    /\ pc = "done"
    /\ op = "neighborhood"
    /\ firstExc = "none"
    /\ point = <<2, 2>>
    /\ oddCell = <<2, 2>>
    /\ ndCells = {<<1, 1>>}
    /\ arg = 3
    /\ result = DictResult(42 :> 1 @@ 7 :> 7)

(***************************************************************************)
(* benchmark_methods_by_size                                               *)
(***************************************************************************)
MinWindow == 3

Max(a, b) == IF a >= b THEN a ELSE b

\* Python round(n / d) for d > 0: nearest integer, ties to the even one
PyRound(n, d) ==
    LET q == n \div d
        r == n % d
    IN  IF 2 * r < d THEN q
        ELSE IF 2 * r > d THEN q + 1
        ELSE IF q % 2 = 0 THEN q ELSE q + 1

\* cells = max(3, round(size / 30))
RoundedCells(size) == Max(MinWindow, PyRound(size, CellResolution))

\* variant of ForceOdd: an even count is left as it is
KeepParity(cells) == cells

\* if cells % 2 == 0: cells += 1
ForceOdd(cells) == IF cells % 2 = 0 THEN cells + 1 ELSE cells

SizeSet == {0, 100, 150, 1000}

SeqsUpTo(S, n) == UNION {[1..k -> S] : k \in 0..n}

Strategies == {"buffer", "neighborhood"}

\* variant of AppendSample: no sample for a call that returned None
AppendUnlessFailed(series, sample, r) ==
    IF r.kind = "None" THEN series ELSE Append(series, sample)

\* results[...][size].append(elapsed): the elapsed time is an opaque measurement,
\* recorded here as the loop position (size index, iteration) that produced it
AppendSample(series, sample, r) == Append(series, sample)

Sample == [i |-> idx, k |-> iter]

\* results = {'buffer': {size: [] for size in sizes}, 'neighborhood': {...}}
BenchStart ==
    /\ hpc = "start"
    /\ hpc' = "for_size"
    /\ results' = [st \in Strategies |-> [s \in Range(sizes) |-> <<>>]]
    /\ UNCHANGED <<sizes, n_iterations, idx, iter, failedCalls>>
    /\ UNCHANGED <<callVars, sizerVars>>

\* for size in sizes: ... return results
ForSize ==
    /\ hpc = "for_size"
    /\ IF idx < Len(sizes)
       THEN /\ idx' = idx + 1
            /\ iter' = 0
            /\ hpc' = "for_iter"
       ELSE /\ hpc' = "returned"
            /\ UNCHANGED <<idx, iter>>
    /\ UNCHANGED <<sizes, n_iterations, results, failedCalls>>
    /\ UNCHANGED <<callVars, sizerVars>>

\* for _ in range(n_iterations):
ForIter ==
    /\ hpc = "for_iter"
    /\ IF iter < n_iterations
       THEN /\ iter' = iter + 1
            /\ hpc' = "call_buffer"
       ELSE /\ hpc' = "for_size"
            /\ UNCHANGED iter
    /\ UNCHANGED <<sizes, n_iterations, idx, results, failedCalls>>
    /\ UNCHANGED <<callVars, sizerVars>>

\* get_pixel_counts_in_buffer_5070(x, y, buffer_meters=size)
CallBuffer ==
    /\ hpc = "call_buffer"
    /\ hpc' = "in_buffer"
    /\ op' = "buffer"
    /\ arg' = sizes[idx]
    /\ EnterCursor
    /\ UNCHANGED <<prev, point, oddCell, ndCells, faults>>
    /\ UNCHANGED <<sizes, n_iterations, idx, iter, results, failedCalls>>
    /\ UNCHANGED sizerVars

\* the call is over: an exception it let through leaves the harness, else
\* results['buffer'][size].append(...); the returned value is not looked at
RecordBuffer ==
    /\ hpc = "in_buffer"
    /\ pc = "done"
    /\ IF result.kind = "raise"
       THEN /\ hpc' = "raised"
            /\ UNCHANGED <<results, failedCalls>>
       ELSE /\ hpc' = "call_neighborhood"
            /\ results' = [results EXCEPT !["buffer"][sizes[idx]] =
                               AppendSample(@, Sample, result)]
            /\ failedCalls' = failedCalls + (IF result.kind = "None" THEN 1 ELSE 0)
    /\ UNCHANGED <<sizes, n_iterations, idx, iter>>
    /\ UNCHANGED <<callVars, sizerVars>>

\* cells = max(3, round(size / 30)); forced odd;
\* get_pixel_counts_in_neighborhood_5070(x, y, window_size=cells)
CallNeighborhood ==
    /\ hpc = "call_neighborhood"
    /\ hpc' = "in_neighborhood"
    /\ op' = "neighborhood"
    /\ arg' = ForceOdd(RoundedCells(sizes[idx]))
    /\ EnterCursor
    /\ UNCHANGED <<prev, point, oddCell, ndCells, faults>>
    /\ UNCHANGED <<sizes, n_iterations, idx, iter, results, failedCalls>>
    /\ UNCHANGED sizerVars

\* results['neighborhood'][size].append(...)
RecordNeighborhood ==
    /\ hpc = "in_neighborhood"
    /\ pc = "done"
    /\ IF result.kind = "raise"
       THEN /\ hpc' = "raised"
            /\ UNCHANGED <<results, failedCalls>>
       ELSE /\ hpc' = "for_iter"
            /\ results' = [results EXCEPT !["neighborhood"][sizes[idx]] =
                               AppendSample(@, Sample, result)]
            /\ failedCalls' = failedCalls + (IF result.kind = "None" THEN 1 ELSE 0)
    /\ UNCHANGED <<sizes, n_iterations, idx, iter>>
    /\ UNCHANGED <<callVars, sizerVars>>

InitBench ==
    /\ op = "none"
    /\ pc = "idle"
    /\ connection = "None"
    /\ cursor = "unbound"
    /\ exc = "none"
    /\ firstExc = "none"
    /\ bodyState = "notrun"
    /\ log = <<>>
    /\ retval = Pending
    /\ result = Pending
    /\ prev = NoCall
    /\ point = <<2, 2>>
    /\ arg = 0
    /\ oddCell = <<2, 2>>
    /\ ndCells = {}
    /\ faults = 0
    /\ hpc = "start"
    /\ sizes \in SeqsUpTo(SizeSet, MaxSizes)
    /\ n_iterations \in 0..MaxIter
    /\ idx = 0
    /\ iter = 0
    /\ results = EmptyResults
    /\ failedCalls = 0
    /\ SizerOff

NextBench ==
    \/ BenchStart
    \/ ForSize
    \/ ForIter
    \/ CallBuffer
    \/ RecordBuffer
    \/ CallNeighborhood
    \/ RecordNeighborhood
    \/ Connect
    \/ Cursor
    \/ BufferBody
    \/ NeighborhoodBody
    \/ Commit
    \/ Except
    \/ Finally
    \/ BufferReturn
    \/ NeighborhoodReturn

SpecBench == InitBench /\ [][NextBench]_vars

(***************************************************************************)
(* The window the harness requests, as a function of size: the statements  *)
(* of benchmark_methods_by_size and get_pixel_counts_in_neighborhood_5070  *)
(* that turn a size into a window and a cell distance, applied to two      *)
(* sizes szA.size <= szB.size                                              *)
(***************************************************************************)
Sizes == (0 - MaxNegSize)..MaxSize

\* cells = max(3, round(size / 30))
SizerRound ==
    /\ szpc = "round"
    /\ szpc' = "parity"
    /\ szA' = [szA EXCEPT !.cells = RoundedCells(szA.size)]
    /\ szB' = [szB EXCEPT !.cells = RoundedCells(szB.size)]
    /\ UNCHANGED <<callVars, benchVars>>

\* if cells % 2 == 0: cells += 1
SizerParity ==
    /\ szpc = "parity"
    /\ szpc' = "distance"
    /\ szA' = [szA EXCEPT !.cells = ForceOdd(szA.cells)]
    /\ szB' = [szB EXCEPT !.cells = ForceOdd(szB.cells)]
    /\ UNCHANGED <<callVars, benchVars>>

\* window_size=cells; distance = window_size // 2
SizerDistance ==
    /\ szpc = "distance"
    /\ szpc' = "done"
    /\ szA' = [szA EXCEPT !.distance = Distance(szA.cells)]
    /\ szB' = [szB EXCEPT !.distance = Distance(szB.cells)]
    /\ UNCHANGED <<callVars, benchVars>>

InitSizer ==
    /\ op = "none"
    /\ pc = "idle"
    /\ connection = "None"
    /\ cursor = "unbound"
    /\ exc = "none"
    /\ firstExc = "none"
    /\ bodyState = "notrun"
    /\ log = <<>>
    /\ retval = Pending
    /\ result = Pending
    /\ prev = NoCall
    /\ point = <<2, 2>>
    /\ arg = 0
    /\ oddCell = <<2, 2>>
    /\ ndCells = {}
    /\ faults = 0
    /\ BenchOff
    /\ szpc = "round"
    /\ \E a \in Sizes, b \in Sizes :
           /\ a <= b
           /\ szA = [size |-> a, cells |-> 0, distance |-> 0]
           /\ szB = [size |-> b, cells |-> 0, distance |-> 0]

NextSizer ==
    \/ SizerRound
    \/ SizerParity
    \/ SizerDistance

SpecSizer == InitSizer /\ [][NextSizer]_vars

(***************************************************************************)
(* Properties of the harness (specification SpecBench)                     *)
(***************************************************************************)
Occurrences(s) == Cardinality({i \in DOMAIN sizes : sizes[i] = s})

TotalSamples(st) == SumOver([s \in Range(sizes) |-> Len(results[st][s])], Range(sizes))

\* C3 as stated: when the harness returns, each strategy holds N x K samples in
\* total and the series of each size in sizes holds exactly K samples, also
\* when sizes has repeated values.
C3_KSamplesPerSize ==
    hpc = "returned" =>
        \A st \in Strategies :
            /\ TotalSamples(st) = Len(sizes) * n_iterations
            /\ \A s \in Range(sizes) : Len(results[st][s]) = n_iterations

\* C3 amended: when the harness returns, each strategy holds N x K samples in
\* total and the series of each size holds K samples for every occurrence of
\* that size in sizes (exactly K when the size occurs once).
C3_KSamplesPerOccurrence ==
    hpc = "returned" =>
        \A st \in Strategies :
            /\ TotalSamples(st) = Len(sizes) * n_iterations
            /\ \A s \in Range(sizes) :
                   Len(results[st][s]) = n_iterations * Occurrences(s)

C3_Witness ==
    /\ hpc = "returned"
    /\ sizes = <<100, 150>>
    /\ n_iterations = 2
    /\ failedCalls = 1
    /\ \A st \in Strategies : \A s \in {100, 150} : Len(results[st][s]) = 2

\* C4: when an aggregator call fails with a database error, the harness aborts:
\* no sample is recorded for the failed call, no later iteration runs and no
\* results structure is returned.
C4_FailedCallAbortsHarness ==
    failedCalls > 0 => hpc = "raised"

\* C9: in every iteration the two aggregators are invoked with equivalent
\* extents: the neighborhood radius in cells (window_size // 2) times the 30 m
\* cell resolution is within one cell (30 m) of the buffer radius `size`.
C9_EquivalentExtents ==
    hpc = "in_neighborhood" =>
        LET ground == Distance(arg) * CellResolution
        IN  /\ ground - sizes[idx] <= CellResolution
            /\ sizes[idx] - ground <= CellResolution

(***************************************************************************)
(* Properties of the window computation (specification SpecSizer)          *)
(***************************************************************************)
WindowOk(sz) ==
    /\ sz.cells % 2 = 1
    /\ sz.cells >= 3
    /\ sz.distance >= 1

\* C8: for every size, also size <= 0, the window requested from the
\* neighborhood aggregator is odd and at least 3 cells wide, so the cell radius
\* window_size // 2 is >= 1; and the radius is non-decreasing in size.
C8_OddWindowMonotoneRadius ==
    szpc = "done" =>
        /\ WindowOk(szA)
        /\ WindowOk(szB)
        /\ szA.distance <= szB.distance

C8_Witness ==
    /\ szpc = "done"
    /\ szA.size = 0 - MaxNegSize
    /\ szA.cells = 3
    /\ szA.distance = 1
    /\ szB.size = 120
    /\ szB.cells = 5
    /\ szB.distance = 2

\* the WindowSizer formula: max(1, round(size / 30 / 2)), round half to even
WindowSizerRadius(size) == Max(1, PyRound(size, 2 * CellResolution))

\* C10 as stated: the radius the harness ends up using equals the WindowSizer
\* formula for every size; size = 90 gives radius 1 under both.
C10_RadiusEqualsWindowSizer ==
    szpc = "done" =>
        /\ szA.distance = WindowSizerRadius(szA.size)
        /\ szA.size = 90 => (szA.distance = 1 /\ WindowSizerRadius(90) = 1)

\* C10 amended: the radius the harness ends up using is
\* max(1, round(size / 30) // 2); it never exceeds the WindowSizer formula and
\* is at most one cell below it; size = 90 gives radius 1 in the harness and
\* 2 under the WindowSizer formula.
C10_RadiusIsHalfRoundedCells ==
    szpc = "done" =>
        /\ szA.distance = Max(1, PyRound(szA.size, CellResolution) \div 2)
        /\ szA.distance <= WindowSizerRadius(szA.size)
        /\ WindowSizerRadius(szA.size) <= szA.distance + 1
        /\ szA.size = 90 => (szA.distance = 1 /\ WindowSizerRadius(90) = 2)

C10_Witness ==
    /\ szpc = "done"
    /\ szA.size = 90
    /\ szA.cells = 3
    /\ szA.distance = 1

====
